---------------------------- MODULE Spec2Model ----------------------------
(***************************************************************************)
(* Monte Carlo price simulation under Geometric Brownian Motion:           *)
(* src/api/simulate.py (simulate) and src/api/main.py (simulate_risk).     *)
(*                                                                         *)
(* Numbers.  Every float of the program is an exact rational               *)
(* [num, den] in lowest terms with den > 0; NaN is [num |-> 0, den |-> 0]. *)
(* Floating-point rounding, underflow and overflow are outside the model.  *)
(*                                                                         *)
(* Units.  Prices, rates and volatilities are the program's own numbers.   *)
(* A standard-normal draw Z is stored as the integer z with                *)
(* Z = z / sqrt(1008), so that sqrt(dt) * Z is the rational z / 504 when   *)
(* dt = 1/252.  np.exp is the order-preserving homomorphism                *)
(* x |-> 2^(252 x) on the multiples of 1/252 (exp(0) = 1,                  *)
(* exp(x + y) = exp(x) * exp(y), exp(x) > 0, strictly increasing).         *)
(***************************************************************************)
EXTENDS Integers, Sequences, FiniteSets, TLC

VARIABLES impl, request, pc, error, S, sigma, mu, T, dt, paths, allocated,
          Z, drawn, t, progress, mean_path, percentile_5, percentile_95,
          final_prices, statistics, result

vars == <<impl, request, pc, error, S, sigma, mu, T, dt, paths, allocated,
          Z, drawn, t, progress, mean_path, percentile_5, percentile_95,
          final_prices, statistics, result>>

---------------------------------------------------------------------------
(* Bounds of the model. *)

MaxDays == 2
MaxSims == 2
MaxBandSims == 21

(* Inputs: the legal values and one illegal value of each kind. *)
Prices == {-1, 0, 1, 2}
Volatilities == {-100, 0, 100}
Rates == {0, 1}
DrawValues == {-1, 1}
Impls == {"simulate", "simulate_risk"}

TradingDays == 252

---------------------------------------------------------------------------
(* Exact rational arithmetic. *)

Abs(a) == IF a < 0 THEN -a ELSE a

Sgn(a) == IF a < 0 THEN -1 ELSE IF a = 0 THEN 0 ELSE 1

RECURSIVE Gcd(_, _)
Gcd(a, b) == IF b = 0 THEN a ELSE Gcd(b, a % b)

NaN == [num |-> 0, den |-> 0]

IsNaN(x) == x.den = 0

Rat(n, d) ==
    LET g == Gcd(Abs(n), Abs(d))
    IN  [num |-> Sgn(d) * (n \div g), den |-> Abs(d) \div g]

Int2Rat(n) == [num |-> n, den |-> 1]

Zero == Int2Rat(0)

RatAdd(x, y) ==
    IF IsNaN(x) \/ IsNaN(y) THEN NaN
    ELSE Rat(x.num * y.den + y.num * x.den, x.den * y.den)

RatNeg(x) == [num |-> -x.num, den |-> x.den]

RatSub(x, y) == RatAdd(x, RatNeg(y))

RatMul(x, y) ==
    IF IsNaN(x) \/ IsNaN(y) THEN NaN
    ELSE Rat(x.num * y.num, x.den * y.den)

(* x / y of numpy floats: 0/0 is nan; the callers never divide a nonzero
   number by zero. *)
RatDiv(x, y) ==
    IF IsNaN(x) \/ IsNaN(y) \/ y.num = 0 THEN NaN
    ELSE Rat(x.num * y.den, x.den * y.num)

RatLeq(x, y) == ~IsNaN(x) /\ ~IsNaN(y) /\ x.num * y.den <= y.num * x.den

RatLt(x, y) == ~IsNaN(x) /\ ~IsNaN(y) /\ x.num * y.den < y.num * x.den

RECURSIVE Pow2(_)
Pow2(n) == IF n = 0 THEN 1 ELSE 2 * Pow2(n - 1)

(* floor(sqrt(n)) for n >= 0, by bisection. *)
RECURSIVE ISqrtIn(_, _, _)
ISqrtIn(n, lo, hi) ==
    IF hi - lo <= 1 THEN lo
    ELSE LET mid == (lo + hi) \div 2
         IN  IF mid * mid <= n THEN ISqrtIn(n, mid, hi) ELSE ISqrtIn(n, lo, mid)

ISqrt(n) == IF n < 2 THEN n ELSE ISqrtIn(n, 1, IF n < 46340 THEN n ELSE 46340)

(* Variant: exp cut to its first-order term 1 + x on the same grid. *)
ExpFirstOrder(x) == Int2Rat(1 + (x.num * TradingDays) \div x.den)

(* np.exp on the grid of multiples of 1/252. *)
Exp(x) ==
    LET k == (x.num * TradingDays) \div x.den
    IN  IF k >= 0 THEN Int2Rat(Pow2(k)) ELSE Rat(1, Pow2(-k))

(* np.sqrt(dt) * Z for the draw Z = z / sqrt(1008). *)
SqrtTimesDraw(dtv, z) ==
    LET sq == RatMul(dtv, Rat(z * z, 4 * TradingDays))
    IN  Rat(Sgn(z) * ISqrt(sq.num), ISqrt(sq.den))

---------------------------------------------------------------------------
(* The request and the initial state. *)

Requests ==
    [current_price : Prices, volatility : Volatilities,
     days : -2 .. MaxDays, num_simulations : -1 .. MaxSims,
     risk_free_rate : Rates]

NoStatistics ==
    [initial_price |-> Zero, mean_final_price |-> Zero, std_dev |-> Zero,
     min_price |-> Zero, max_price |-> Zero, var_95_price |-> Zero,
     var_95_loss |-> Zero, var_95_pct |-> Zero, expected_return |-> Zero]

NoResult ==
    [paths |-> <<>>, mean_path |-> <<>>, percentile_5 |-> <<>>,
     percentile_95 |-> <<>>, final_prices |-> <<>>,
     statistics |-> NoStatistics]

InitWith(reqs) ==
    /\ impl \in Impls
    /\ request \in reqs
    /\ pc = "convert"
    /\ error = "none"
    /\ S = Zero /\ sigma = Zero /\ mu = Zero /\ T = Zero /\ dt = Zero
    /\ paths = <<>> /\ allocated = FALSE
    /\ Z = <<>> /\ drawn = FALSE
    /\ t = 0 /\ progress = <<>>
    /\ mean_path = <<>> /\ percentile_5 = <<>> /\ percentile_95 = <<>>
    /\ final_prices = <<>>
    /\ statistics = NoStatistics
    /\ result = NoResult

Init == InitWith(Requests)

---------------------------------------------------------------------------
(* Lines 38-42: conversion to model units. *)

Sigma(volatility) == RatDiv(Int2Rat(volatility), Int2Rat(100))

Horizon(days) == Rat(days, TradingDays)

TimeStep(Tv, days) == RatDiv(Tv, Int2Rat(days))

Convert ==
    /\ pc = "convert"
    /\ request.days # 0
    /\ S' = Int2Rat(request.current_price)
    /\ sigma' = Sigma(request.volatility)
    /\ mu' = Int2Rat(request.risk_free_rate)
    /\ T' = Horizon(request.days)
    /\ dt' = TimeStep(Horizon(request.days), request.days)
    /\ pc' = "allocate"
    /\ UNCHANGED <<impl, request, error, paths, allocated, Z, drawn, t,
                   progress, mean_path, percentile_5, percentile_95,
                   final_prices, statistics, result>>

(* T / request.days with days = 0: Python raises ZeroDivisionError. *)
ConvertFail ==
    /\ pc = "convert"
    /\ request.days = 0
    /\ S' = Int2Rat(request.current_price)
    /\ sigma' = Sigma(request.volatility)
    /\ mu' = Int2Rat(request.risk_free_rate)
    /\ T' = Horizon(request.days)
    /\ pc' = "failed"
    /\ error' = "ZeroDivisionError"
    /\ UNCHANGED <<impl, request, dt, paths, allocated, Z, drawn, t,
                   progress, mean_path, percentile_5, percentile_95,
                   final_prices, statistics, result>>

---------------------------------------------------------------------------
(* Lines 45-46: the ensemble, column 0 set to the starting price. *)

Zeros(n, cols) == [i \in 1 .. n |-> [c \in 1 .. cols |-> Zero]]

InitialPaths(n, days, s) ==
    [i \in 1 .. n |-> [c \in 1 .. days + 1 |-> IF c = 1 THEN s ELSE Zero]]

Allocate ==
    /\ pc = "allocate"
    /\ request.num_simulations >= 0
    /\ request.days + 1 >= 1
    /\ paths' = InitialPaths(request.num_simulations, request.days, S)
    /\ allocated' = TRUE
    /\ pc' = "draw"
    /\ UNCHANGED <<impl, request, error, S, sigma, mu, T, dt, Z, drawn, t,
                   progress, mean_path, percentile_5, percentile_95,
                   final_prices, statistics, result>>

(* np.zeros refuses a negative dimension (ValueError); with days = -1 the
   ensemble has no column and paths[:, 0] = S raises IndexError. *)
AllocateFail ==
    /\ pc = "allocate"
    /\ \/ /\ (request.num_simulations < 0 \/ request.days + 1 < 0)
          /\ error' = "ValueError"
          /\ UNCHANGED <<paths, allocated>>
       \/ /\ request.num_simulations >= 0
          /\ request.days + 1 = 0
          /\ paths' = Zeros(request.num_simulations, 0)
          /\ allocated' = TRUE
          /\ error' = "IndexError"
    /\ pc' = "failed"
    /\ UNCHANGED <<impl, request, S, sigma, mu, T, dt, Z, drawn, t,
                   progress, mean_path, percentile_5, percentile_95,
                   final_prices, statistics, result>>

---------------------------------------------------------------------------
(* Line 49: one standard-normal draw per (path, step). *)

AllDraws(n, days) == [1 .. n -> [1 .. days -> DrawValues]]

DrawFrom(draws) ==
    /\ pc = "draw"
    /\ Z' \in draws
    /\ drawn' = TRUE
    /\ t' = 1
    /\ progress' = [i \in 1 .. request.num_simulations |-> 0]
    /\ pc' = "loop"
    /\ UNCHANGED <<impl, request, error, S, sigma, mu, T, dt, paths,
                   allocated, mean_path, percentile_5, percentile_95,
                   final_prices, statistics, result>>

Draw == DrawFrom(AllDraws(request.num_simulations, request.days))

---------------------------------------------------------------------------
(* Lines 52-55: the GBM recurrence.  Column index c of the program is
   position c + 1 of the sequence; Z[:, t-1] is Zs[i][t]. *)

HalfSigmaSq(sg) == RatMul(Rat(1, 2), RatMul(sg, sg))

StepExponent(m, sg, dtv, z) ==
    RatAdd(RatMul(RatSub(m, HalfSigmaSq(sg)), dtv),
           RatMul(sg, SqrtTimesDraw(dtv, z)))

StepFactor(m, sg, dtv, z) == Exp(StepExponent(m, sg, dtv, z))

(* Variant: every step restarts from column 0 instead of column tt-1. *)
CellUpdateFromStart(P, Zs, i, tt) ==
    RatMul(P[i][1], StepFactor(mu, sigma, dt, Zs[i][tt]))

(* Variant: path i steps from the previous value of the next path. *)
CellUpdateNeighbour(P, Zs, i, tt) ==
    RatMul(P[(i % Len(P)) + 1][tt], StepFactor(mu, sigma, dt, Zs[i][tt]))

(* paths[i, tt] from paths[i, tt-1] and Z[i, tt-1]. *)
CellUpdate(P, Zs, i, tt) ==
    RatMul(P[i][tt], StepFactor(mu, sigma, dt, Zs[i][tt]))

(* Variant: the step stores into column tt-1 (off by one). *)
StepColumnOffByOne(P, Zs, tt) ==
    [i \in DOMAIN P |-> [P[i] EXCEPT ![tt] = CellUpdate(P, Zs, i, tt)]]

(* paths[:, tt] = ...: the whole right-hand side is evaluated, then stored. *)
StepColumn(P, Zs, tt) ==
    [i \in DOMAIN P |-> [P[i] EXCEPT ![tt + 1] = CellUpdate(P, Zs, i, tt)]]

Step ==
    /\ pc = "loop"
    /\ t <= request.days
    /\ paths' = StepColumn(paths, Z, t)
    /\ progress' = [i \in DOMAIN progress |-> t]
    /\ t' = t + 1
    /\ UNCHANGED <<impl, request, pc, error, S, sigma, mu, T, dt, allocated,
                   Z, drawn, mean_path, percentile_5, percentile_95,
                   final_prices, statistics, result>>

---------------------------------------------------------------------------
(* Lines 58-62: column-wise reduction of the ensemble. *)

Column(P, c) == [i \in DOMAIN P |-> P[i][c]]

RECURSIVE SumTo(_, _)
SumTo(xs, n) == IF n = 0 THEN Zero ELSE RatAdd(SumTo(xs, n - 1), xs[n])

Sum(xs) == SumTo(xs, Len(xs))

(* np.mean: the arithmetic mean; nan (with a warning) for an empty sample. *)
Mean(xs) == RatDiv(Sum(xs), Int2Rat(Len(xs)))

RECURSIVE Insert(_, _)
Insert(x, xs) ==
    IF xs = <<>> THEN <<x>>
    ELSE IF RatLeq(x, Head(xs)) THEN <<x>> \o xs
    ELSE <<Head(xs)>> \o Insert(x, Tail(xs))

RECURSIVE SortTo(_, _)
SortTo(xs, n) == IF n = 0 THEN <<>> ELSE Insert(xs[n], SortTo(xs, n - 1))

(* np.sort: ascending. *)
Sort(xs) == SortTo(xs, Len(xs))

(* Variant: method "higher", the upper neighbour without interpolation. *)
PercentileHigher(xs, q) ==
    LET n    == Len(xs)
        srt  == Sort(xs)
        pos  == q * (n - 1)
        lo   == pos \div 100
        hi   == IF pos % 100 = 0 THEN lo ELSE lo + 1
    IN  srt[hi + 1]

(* np.percentile(..., q), default method "linear": the virtual index
   q/100 * (n-1), interpolated between the two neighbouring order
   statistics. *)
Percentile(xs, q) ==
    LET n    == Len(xs)
        srt  == Sort(xs)
        pos  == q * (n - 1)
        lo   == pos \div 100
        hi   == IF lo + 1 <= n - 1 THEN lo + 1 ELSE lo
        frac == Rat(pos % 100, 100)
    IN  RatAdd(srt[lo + 1], RatMul(frac, RatSub(srt[hi + 1], srt[lo + 1])))

MeanPath(P, cols) == [c \in 1 .. cols |-> Mean(Column(P, c))]

PercentilePath(P, cols, q) == [c \in 1 .. cols |-> Percentile(Column(P, c), q)]

(* Variant: the first column instead of the last. *)
FinalPricesFirstColumn(P, days) == Column(P, 1)

(* paths[:, -1] *)
FinalPrices(P, days) == Column(P, days + 1)

LoopDone == pc = "loop" /\ t > request.days

Reduce ==
    /\ LoopDone
    /\ request.num_simulations >= 1
    /\ mean_path' = MeanPath(paths, request.days + 1)
    /\ percentile_5' = PercentilePath(paths, request.days + 1, 5)
    /\ percentile_95' = PercentilePath(paths, request.days + 1, 95)
    /\ final_prices' = FinalPrices(paths, request.days)
    /\ pc' = "statistics"
    /\ UNCHANGED <<impl, request, error, S, sigma, mu, T, dt, paths,
                   allocated, Z, drawn, t, progress, statistics, result>>

NaNs(cols) == [c \in 1 .. cols |-> NaN]

(* An empty ensemble (num_simulations = 0): np.mean gives nan per column;
   np.percentile of an empty axis raises IndexError in some numpy releases
   and gives nan in others. *)
ReduceEmpty ==
    /\ LoopDone
    /\ request.num_simulations = 0
    /\ mean_path' = NaNs(request.days + 1)
    /\ \/ /\ pc' = "failed"
          /\ error' = "IndexError"
          /\ UNCHANGED <<percentile_5, percentile_95, final_prices>>
       \/ /\ percentile_5' = NaNs(request.days + 1)
          /\ percentile_95' = NaNs(request.days + 1)
          /\ final_prices' = FinalPrices(paths, request.days)
          /\ pc' = "statistics"
          /\ UNCHANGED error
    /\ UNCHANGED <<impl, request, S, sigma, mu, T, dt, paths, allocated, Z,
                   drawn, t, progress, statistics, result>>

---------------------------------------------------------------------------
(* Lines 63-84: Value-at-Risk and the other statistics. *)

(* Variant: the rank of the 95th instead of the 5th percentile. *)
VarIndexUpper(n) == (n * 95) \div 100

(* int(len(final_sorted) * 0.05) *)
VarIndex(n) == (n * 5) \div 100

(* Variant: a running minimum started at 0. *)
MinOfFromZero(xs) == Sort(<<Zero>> \o xs)[1]

MinOf(xs) == Sort(xs)[1]

MaxOf(xs) == Sort(xs)[Len(xs)]

(* Python round(x, 2): to the nearest hundredth, ties to even; nan stays. *)
Round2(x) ==
    IF IsNaN(x) THEN NaN
    ELSE LET a   == Abs(x.num) * 100
             q   == a \div x.den
             rem == a % x.den
             r   == IF 2 * rem > x.den THEN q + 1
                    ELSE IF 2 * rem < x.den THEN q
                    ELSE IF q % 2 = 0 THEN q ELSE q + 1
         IN  Rat(Sgn(x.num) * r, 100)

(* np.std: the population variance (divide by N) ... *)
Variance(xs) ==
    LET m == Mean(xs)
        sq == [i \in DOMAIN xs |-> RatMul(RatSub(xs[i], m), RatSub(xs[i], m))]
    IN  Mean(sq)

(* ... and round(sqrt(v), 2), from f = floor(200 * sqrt(v)). *)
RoundSqrt2(v) ==
    LET whole == 40000 * (v.num \div v.den)
        part  == 40000 * (v.num % v.den)
        a     == whole + (part \div v.den)
        exact == part % v.den = 0
        f     == ISqrt(a)
        r     == IF f % 2 = 0 THEN f \div 2
                 ELSE IF exact /\ f * f = a /\ ((f - 1) \div 2) % 2 = 0
                      THEN (f - 1) \div 2
                 ELSE (f + 1) \div 2
    IN  Rat(r, 100)

Percent(x, base) == RatMul(RatDiv(x, base), Int2Rat(100))

Statistics(s, finals) ==
    LET final_sorted == Sort(finals)
        var_95_index == VarIndex(Len(final_sorted))
        var_95_price == final_sorted[var_95_index + 1]
        var_95_loss  == RatSub(s, var_95_price)
        var_95_pct   == Percent(var_95_loss, s)
        mean_final   == Mean(finals)
    IN  [initial_price    |-> s,
         mean_final_price |-> Round2(mean_final),
         std_dev          |-> RoundSqrt2(Variance(finals)),
         min_price        |-> Round2(MinOf(finals)),
         max_price        |-> Round2(MaxOf(finals)),
         var_95_price     |-> Round2(var_95_price),
         var_95_loss      |-> Round2(var_95_loss),
         var_95_pct       |-> Round2(var_95_pct),
         expected_return  |-> Round2(Percent(RatSub(mean_final, s), s))]

(* simulate.py divides Python floats: var_95_loss / S raises
   ZeroDivisionError when S = 0.  main.py divides numpy floats: 0/0 is nan. *)
DivisionRaises == impl = "simulate" /\ S.num = 0

ComputeStatistics ==
    /\ pc = "statistics"
    /\ request.num_simulations >= 1
    /\ ~DivisionRaises
    /\ statistics' = Statistics(S, final_prices)
    /\ pc' = "return"
    /\ UNCHANGED <<impl, request, error, S, sigma, mu, T, dt, paths,
                   allocated, Z, drawn, t, progress, mean_path,
                   percentile_5, percentile_95, final_prices, result>>

(* final_sorted[var_95_index] of an empty array: IndexError (line 67);
   else the division of line 69. *)
StatisticsFail ==
    /\ pc = "statistics"
    /\ \/ /\ request.num_simulations = 0
          /\ error' = "IndexError"
       \/ /\ request.num_simulations >= 1
          /\ DivisionRaises
          /\ error' = "ZeroDivisionError"
    /\ pc' = "failed"
    /\ UNCHANGED <<impl, request, S, sigma, mu, T, dt, paths, allocated, Z,
                   drawn, t, progress, mean_path, percentile_5,
                   percentile_95, final_prices, statistics, result>>

---------------------------------------------------------------------------
(* Lines 86-93: the result. *)

Return ==
    /\ pc = "return"
    /\ result' = [paths |-> paths, mean_path |-> mean_path,
                  percentile_5 |-> percentile_5,
                  percentile_95 |-> percentile_95,
                  final_prices |-> final_prices,
                  statistics |-> statistics]
    /\ pc' = "returned"
    /\ UNCHANGED <<impl, request, error, S, sigma, mu, T, dt, paths,
                   allocated, Z, drawn, t, progress, mean_path,
                   percentile_5, percentile_95, final_prices, statistics>>

---------------------------------------------------------------------------
(* One invocation, with the inputs the transport shell lets through
   (SimulationRequest declares types only, no ranges). *)

Next ==
    \/ Convert
    \/ ConvertFail
    \/ Allocate
    \/ AllocateFail
    \/ Draw
    \/ Step
    \/ Reduce
    \/ ReduceEmpty
    \/ ComputeStatistics
    \/ StatisticsFail
    \/ Return

Spec == Init /\ [][Next]_vars

---------------------------------------------------------------------------
(* Large ensembles.  The column statistics do not depend on the order of
   the paths, so this specification draws one matrix per arrangement "the
   first c paths draw high, the others low" at each step, over valid
   requests of one step. *)

BandRequests ==
    [current_price : {1, 2}, volatility : {0, 100}, days : {1},
     num_simulations : 1 .. MaxBandSims, risk_free_rate : Rates]

StaircaseDraws(n, days) ==
    { [i \in 1 .. n |-> [s \in 1 .. days |-> IF i <= c[s] THEN 1 ELSE -1]] :
        c \in [1 .. days -> 0 .. n] }

DrawStaircase ==
    DrawFrom(StaircaseDraws(request.num_simulations, request.days))

InitBands == InitWith(BandRequests)

NextBands ==
    \/ Convert
    \/ Allocate
    \/ DrawStaircase
    \/ Step
    \/ Reduce
    \/ ComputeStatistics
    \/ Return

SpecBands == InitBands /\ [][NextBands]_vars

---------------------------------------------------------------------------
(* The recurrence evaluated path by path, in any order: path i takes its
   step progress[i] + 1 once its own step progress[i] is stored. *)

ParRequests ==
    [current_price : {2}, volatility : {0, 100}, days : 1 .. MaxDays,
     num_simulations : 1 .. MaxSims, risk_free_rate : {1}]

RECURSIVE MinTo(_, _)
MinTo(xs, n) ==
    IF n = 1 THEN xs[1]
    ELSE LET m == MinTo(xs, n - 1) IN IF xs[n] < m THEN xs[n] ELSE m

StepPath(i) ==
    /\ pc = "loop"
    /\ progress[i] < request.days
    /\ paths' = [paths EXCEPT
                   ![i][progress[i] + 2] = CellUpdate(paths, Z, i, progress[i] + 1)]
    /\ progress' = [progress EXCEPT ![i] = progress[i] + 1]
    /\ t' = 1 + MinTo(progress', Len(progress'))
    /\ UNCHANGED <<impl, request, pc, error, S, sigma, mu, T, dt, allocated,
                   Z, drawn, mean_path, percentile_5, percentile_95,
                   final_prices, statistics, result>>

StepAnyPath == \E i \in DOMAIN progress : StepPath(i)

InitPar == /\ InitWith(ParRequests)
           /\ impl = "simulate"

NextPar ==
    \/ Convert
    \/ Allocate
    \/ Draw
    \/ StepAnyPath
    \/ Reduce
    \/ ComputeStatistics
    \/ Return

SpecPar == InitPar /\ [][NextPar]_vars

---------------------------------------------------------------------------
(* The whole loop of lines 52-55 as a function of the draws (the
   singleton sets bind each intermediate ensemble once). *)

RECURSIVE LoopTo(_, _, _)
LoopTo(P, Zs, n) ==
    IF n = 0 THEN P
    ELSE CHOOSE after \in {StepColumn(before, Zs, n) :
                              before \in {LoopTo(P, Zs, n - 1)}} : TRUE

VectorizedLoop(Zs) ==
    LoopTo(InitialPaths(request.num_simulations, request.days, S), Zs,
           request.days)

---------------------------------------------------------------------------
(* Properties. *)

ValidRequest ==
    /\ request.current_price > 0
    /\ request.volatility >= 0
    /\ request.days >= 1
    /\ request.num_simulations >= 1

Returned == pc = "returned"

Pos(x) == RatLt(Zero, x)

(* C1: a request with an out-of-domain parameter (current_price <= 0,
   days <= 0, num_simulations <= 0 or volatility < 0) fails with
   InvalidParameter and returns no result. *)
C1_InvalidParameterRejected ==
    ~ValidRequest =>
        /\ pc # "returned"
        /\ result = NoResult
        /\ (pc = "failed" => error = "InvalidParameter")

(* C2: an out-of-domain request is rejected before the ensemble is
   allocated and before any variate is drawn; it never reaches the
   time-step loop or the statistics. *)
C2_FailsBeforeAllocation ==
    ~ValidRequest =>
        /\ ~allocated
        /\ ~drawn
        /\ pc \notin {"draw", "loop", "statistics", "return", "returned"}

(* C3: for a valid request the result has num_simulations rows of days+1
   values, final_prices holds the last value of each row, and the three
   band paths have days+1 elements. *)
C3_ResultShape ==
    (Returned /\ ValidRequest) =>
        LET n == request.num_simulations
            d == request.days
        IN  /\ Len(result.paths) = n
            /\ \A i \in 1 .. n : Len(result.paths[i]) = d + 1
            /\ Len(result.final_prices) = n
            /\ \A i \in 1 .. n :
                   result.final_prices[i] = result.paths[i][d + 1]
            /\ Len(result.mean_path) = d + 1
            /\ Len(result.percentile_5) = d + 1
            /\ Len(result.percentile_95) = d + 1

C3_Witness ==
    /\ Returned /\ ValidRequest
    /\ request.num_simulations = 2 /\ request.days = 2
    /\ result.final_prices[1] # result.paths[1][1]
    /\ result.final_prices[1] # result.final_prices[2]

(* C4: column 0 of every path is current_price from the allocation on,
   through every iteration of the loop and in the returned paths. *)
C4_ColumnZero ==
    /\ (allocated /\ pc # "failed") =>
           \A i \in DOMAIN paths : paths[i][1] = Int2Rat(request.current_price)
    /\ Returned =>
           \A i \in DOMAIN result.paths :
               result.paths[i][1] = Int2Rat(request.current_price)

C4_Witness ==
    /\ Returned
    /\ request.days = 2
    /\ \E i \in DOMAIN result.paths :
           /\ result.paths[i][2] # result.paths[i][1]
           /\ result.paths[i][3] # result.paths[i][2]

(* C5: for a valid request every value of paths written so far, and every
   value of the returned paths, is strictly positive. *)
C5_Positive ==
    ValidRequest =>
        /\ drawn =>
               \A i \in DOMAIN paths :
                   \A c \in 1 .. progress[i] + 1 : Pos(paths[i][c])
        /\ Returned =>
               \A i \in DOMAIN result.paths :
                   \A c \in DOMAIN result.paths[i] : Pos(result.paths[i][c])

C5_Witness ==
    /\ Returned /\ ValidRequest
    /\ request.volatility > 0
    /\ \E i \in DOMAIN result.paths :
           RatLt(result.paths[i][request.days + 1], result.paths[i][1])

BandsOrdered ==
    \A c \in DOMAIN result.mean_path :
        /\ RatLeq(result.percentile_5[c], result.mean_path[c])
        /\ RatLeq(result.mean_path[c], result.percentile_95[c])

(* C6 as stated: for every valid request and every ensemble,
   percentile_5[t] <= mean_path[t] <= percentile_95[t] at every step. *)
C6_BandsOrderedAlways == (Returned /\ ValidRequest) => BandsOrdered

(* The largest sample whose interpolated 5th percentile still lies in the
   lowest gap between order statistics, and its 95th in the highest. *)
InterpolationLimit == 100 \div 5

(* C6 as amended: for every valid request with num_simulations <= 20 and
   every ensemble, percentile_5[t] <= mean_path[t] <= percentile_95[t] at
   every step. *)
C6_BandsOrderedSmall ==
    (Returned /\ ValidRequest
       /\ request.num_simulations <= InterpolationLimit) => BandsOrdered

C6_Witness ==
    /\ Returned /\ ValidRequest
    /\ request.num_simulations = InterpolationLimit
    /\ RatLt(result.percentile_5[2], result.mean_path[2])
    /\ result.mean_path[2] = result.percentile_95[2]
    /\ RatLt(result.percentile_5[2], result.percentile_95[2])

CountBelow(xs, v) == Cardinality({j \in DOMAIN xs : RatLt(xs[j], v)})

CountUpTo(xs, v) == Cardinality({j \in DOMAIN xs : RatLeq(xs[j], v)})

(* C7: var_95_price is the final price of ascending rank
   floor(0.05 * N) (0-based), a rank within 0 .. N-1; it lies between
   min_price and max_price, and var_95_loss = current_price - var_95_price. *)
C7_NearestRank ==
    (Returned /\ ValidRequest) =>
        LET xs == result.final_prices
            n  == request.num_simulations
            k  == n \div 20
        IN  /\ k \in 0 .. n - 1
            /\ \E j \in DOMAIN xs :
                   /\ CountBelow(xs, xs[j]) <= k
                   /\ k < CountUpTo(xs, xs[j])
                   /\ result.statistics.var_95_price = Round2(xs[j])
                   /\ result.statistics.var_95_loss =
                          Round2(RatSub(Int2Rat(request.current_price), xs[j]))
            /\ RatLeq(result.statistics.min_price,
                      result.statistics.var_95_price)
            /\ RatLeq(result.statistics.var_95_price,
                      result.statistics.max_price)

C7_Witness ==
    /\ Returned /\ ValidRequest
    /\ request.num_simulations >= 20
    /\ RatLt(result.statistics.min_price, result.statistics.var_95_price)
    /\ result.statistics.var_95_loss # Zero

(* C8: with num_simulations = 1 the result has one row, and
   mean_final_price, var_95_price, min_price and max_price all equal that
   row's final value rounded to 2 decimals. *)
C8_SinglePath ==
    (Returned /\ ValidRequest /\ request.num_simulations = 1) =>
        LET last == Round2(result.paths[1][request.days + 1])
        IN  /\ Len(result.paths) = 1
            /\ result.statistics.mean_final_price = last
            /\ result.statistics.var_95_price = last
            /\ result.statistics.min_price = last
            /\ result.statistics.max_price = last

C8_Witness ==
    /\ Returned /\ ValidRequest /\ request.num_simulations = 1
    /\ result.paths[1][request.days + 1] # result.paths[1][1]
    /\ result.statistics.max_price # Int2Rat(request.current_price)

(* current_price * exp(mu * t * dt) with dt = 1/252. *)
DriftOnly(tt) ==
    RatMul(Int2Rat(request.current_price),
           Exp(RatMul(RatMul(Int2Rat(request.risk_free_rate), Int2Rat(tt)),
                      Rat(1, 252))))

(* C9: with volatility = 0 and an otherwise valid request, dt = 1/252,
   every path equals current_price * exp(mu * t * dt) at every step t
   whatever the draws and the number of paths, the three band paths
   coincide with it, and min_price = max_price = var_95_price =
   mean_final_price. *)
C9_ZeroVolatility ==
    (Returned /\ ValidRequest /\ request.volatility = 0) =>
        /\ dt = Rat(1, 252)
        /\ \A i \in DOMAIN result.paths :
               \A c \in 1 .. request.days + 1 :
                   result.paths[i][c] = DriftOnly(c - 1)
        /\ \A c \in 1 .. request.days + 1 :
               /\ result.mean_path[c] = DriftOnly(c - 1)
               /\ result.percentile_5[c] = DriftOnly(c - 1)
               /\ result.percentile_95[c] = DriftOnly(c - 1)
        /\ result.statistics.min_price = result.statistics.max_price
        /\ result.statistics.var_95_price = result.statistics.max_price
        /\ result.statistics.mean_final_price = result.statistics.max_price
        /\ result.statistics.max_price = Round2(DriftOnly(request.days))

C9_Witness ==
    /\ Returned /\ ValidRequest /\ request.volatility = 0
    /\ request.risk_free_rate = 1
    /\ request.days = 2 /\ request.num_simulations = 2
    /\ Z[1] # Z[2]
    /\ result.paths[1][3] # result.paths[1][2]

Flip(Zs, j, s) == [Zs EXCEPT ![j][s] = -Zs[j][s]]

(* C10: with the per-path updates taken in any order, each path stepping
   only after its own previous step, every cell stored so far equals the
   cell the vectorized loop stores, no other cell is touched, the returned
   ensemble is the one of the vectorized loop, and path i is unchanged
   when a draw of another path changes. *)
C10_OrderIndependent ==
    drawn => \A V \in {VectorizedLoop(Z)} :
        /\ pc = "loop" =>
               \A i \in DOMAIN paths :
                   \A c \in 1 .. request.days + 1 :
                       paths[i][c] = IF c <= progress[i] + 1 THEN V[i][c]
                                     ELSE Zero
        /\ Returned =>
               /\ result.paths = V
               /\ \A i \in DOMAIN Z : \A j \in DOMAIN Z \ {i} :
                      \A s \in 1 .. request.days :
                          VectorizedLoop(Flip(Z, j, s))[i] = V[i]

C10_Witness ==
    /\ pc = "loop"
    /\ request.num_simulations = 2 /\ request.days = 2
    /\ request.volatility > 0
    /\ progress = <<0, 2>>
    /\ Z[1] # Z[2]
    /\ paths[2][3] # paths[2][1]

===========================================================================
